---- MODULE Spec2Model ----
(***************************************************************************)
(* youtube_frames_to_png.py: the time-code parser (to_sec), the frame      *)
(* budget estimate and the streaming progress loop of                      *)
(* ffmpeg_extract_frames, the handling of its outcome in main, and the     *)
(* download progress hook of download_youtube.                             *)
(*                                                                         *)
(* Strings are sequences of one-character strings, so that split, int()    *)
(* and float() are computed and not assumed.  The alphabet is the decimal  *)
(* digits, ":", "=", letters and "/"; a field is numeric when it is a      *)
(* non-empty run of digits (signs, blanks, "." and exponents are outside   *)
(* the alphabet).  Seconds are integers; last_out_time is kept in          *)
(* microseconds, and the inputs are such that the floating point products  *)
(* of the source are exact, so integer arithmetic computes what the        *)
(* source computes.                                                        *)
(***************************************************************************)
EXTENDS Integers, Sequences, FiniteSets, TLC

VARIABLES
    pc,                   \* position of the control flow
    ts, ts_result,        \* to_sec: argument and result
    dur, fps_num, fps_den,\* ffprobe's answer: format.duration, r_frame_rate "num/den"
    probe,                \* how probe_video_info ends: "ok" or the exception it raises
    every_n, start_ts, end_ts,   \* arguments of ffmpeg_extract_frames
    est_frames,           \* the estimate, 0 when unknown
    pbar,                 \* the tqdm bar; made is FALSE while pbar is None
    calls,                \* what the bar has been sent, in order
    proc,                 \* the ffmpeg child: "none", "running", "exited", "reaped"
    returncode,           \* the child's exit status
    stdout,               \* lines written by the child and not yet read
    emitted,              \* number of lines the child has written
    last_frames_counted, last_out_time,
    exc,                  \* exception in flight when the finally block is entered
    outcome,              \* how ffmpeg_extract_frames ends
    exit_status           \* how the script ends

vars == <<pc, ts, ts_result, dur, fps_num, fps_den, probe, every_n, start_ts,
          end_ts, est_frames, pbar, calls, proc, returncode, stdout, emitted,
          last_frames_counted, last_out_time, exc, outcome, exit_status>>

tsVars == <<ts, ts_result>>
inVars == <<dur, fps_num, fps_den, probe, every_n, start_ts, end_ts>>
barVars == <<pbar, calls>>
procVars == <<proc, returncode, stdout, emitted>>
curVars == <<last_frames_counted, last_out_time>>
endVars == <<exc, outcome, exit_status>>

---------------------------------------------------------------------------
(* Strings *)

Digits == {"0", "1", "2", "3", "4", "5", "6", "7", "8", "9"}

DigitVal(c) ==
    CASE c = "0" -> 0 [] c = "1" -> 1 [] c = "2" -> 2 [] c = "3" -> 3
      [] c = "4" -> 4 [] c = "5" -> 5 [] c = "6" -> 6 [] c = "7" -> 7
      [] c = "8" -> 8 [] c = "9" -> 9

\* float(p) and int(p) succeed on p
IsNumeric(p) == Len(p) > 0 /\ \A i \in 1..Len(p) : p[i] \in Digits

RECURSIVE NumVal(_)
NumVal(p) ==
    IF p = <<>> THEN 0
    ELSE NumVal(SubSeq(p, 1, Len(p) - 1)) * 10 + DigitVal(p[Len(p)])

\* s.split(sep)
RECURSIVE Split(_, _)
Split(s, sep) ==
    IF \A i \in 1..Len(s) : s[i] # sep THEN <<s>>
    ELSE LET k == CHOOSE i \in 1..Len(s) :
                      s[i] = sep /\ \A j \in 1..(i - 1) : s[j] # sep
         IN <<SubSeq(s, 1, k - 1)>> \o Split(SubSeq(s, k + 1, Len(s)), sep)

\* s.split("=", 1)[1], for a line that holds "="
AfterEq(s) ==
    LET k == CHOOSE i \in 1..Len(s) : s[i] = "=" /\ \A j \in 1..(i - 1) : s[j] # "="
    IN SubSeq(s, k + 1, Len(s))

StartsWith(s, p) == Len(s) >= Len(p) /\ SubSeq(s, 1, Len(p)) = p

RECURSIVE Join(_)
Join(fields) ==
    IF Len(fields) = 0 THEN <<>>
    ELSE IF Len(fields) = 1 THEN fields[1]
    ELSE fields[1] \o <<":">> \o Join(Tail(fields))

Max(a, b) == IF a >= b THEN a ELSE b

\* int(x) of the quotient num / den, den > 0: truncation toward zero
Trunc(num, den) == IF num >= 0 THEN num \div den ELSE -((-num) \div den)

---------------------------------------------------------------------------
(* to_sec *)

Raised(kind) == [ok |-> FALSE, err |-> kind, val |-> 0]
Returned(v) == [ok |-> TRUE, err |-> "", val |-> v]

\* parts.insert(0, 0.0) while len(parts) < 3
RECURSIVE PadParts(_)
PadParts(parts) == IF Len(parts) < 3 THEN PadParts(<<0>> \o parts) ELSE parts

ToSec(s) ==
    IF s = <<>> THEN Returned(0)
    ELSE LET fields == Split(s, ":")
         IN IF \E i \in 1..Len(fields) : ~IsNumeric(fields[i])
            THEN Raised("ValueError")
            ELSE LET parts == PadParts([i \in 1..Len(fields) |-> NumVal(fields[i])])
                 IN Returned(parts[1] * 3600 + parts[2] * 60 + parts[3])

MaxFields == 4

FieldStrings ==
    {<<>>, <<"1">>, <<"2">>, <<"3">>, <<"4">>, <<"0", "1">>, <<"3", "0">>,
     <<"x">>}

---------------------------------------------------------------------------
(* tqdm, as the script uses it *)

\* tqdm(total=...): total 0 stands for total=None, the indeterminate bar
NoBar == [made |-> FALSE, total |-> 0, n |-> 0, closed |-> FALSE]
NewBar(total) == [made |-> TRUE, total |-> total, n |-> 0, closed |-> FALSE]

\* update() and close() return at once on a bar that is already closed
BarUpdate(b, inc) == IF b.closed THEN b ELSE [b EXCEPT !.n = @ + inc]
BarClose(b) == [b EXCEPT !.closed = TRUE]
BarSetTotal(b, total) == [b EXCEPT !.total = total]

Update(inc) == [op |-> "update", arg |-> inc]
Close == [op |-> "close", arg |-> 0]
SetTotal(total) == [op |-> "total", arg |-> total]

---------------------------------------------------------------------------
(* probe_video_info and the estimate of ffmpeg_extract_frames *)

\* fps = float(num) / float(den) if float(den) != 0 else 0.0
ProbeFps(num, den) == IF den # 0 THEN num \div den ELSE 0

\* the start offset is not subtracted when the end is the media's duration
EffectiveDurationNoStart(durv, start_s, end_s, has_end) ==
    Max(0, IF has_end THEN end_s - start_s
           ELSE IF durv > 0 THEN durv ELSE 0)

EffectiveDuration(durv, start_s, end_s, has_end) ==
    Max(0, IF has_end THEN end_s - start_s
           ELSE IF durv > 0 THEN durv - start_s ELSE 0)

EstFrames(eff, fps, n) ==
    IF fps > 0 /\ eff > 0 THEN Trunc(eff * fps, Max(1, n)) ELSE 0

\* lines 140-148; to_sec may raise
Estimate(durv, fps, n, sts, ets) ==
    LET st == IF sts # <<>> THEN ToSec(sts) ELSE Returned(0)
        en == IF ets # <<>> THEN ToSec(ets)
              ELSE Returned(IF durv > 0 THEN durv ELSE 0)
    IN IF ~st.ok \/ ~en.ok THEN Raised("ValueError")
       ELSE Returned(EstFrames(
                EffectiveDuration(durv, st.val, en.val, ets # <<>>), fps, n))

---------------------------------------------------------------------------
(* The progress stream of ffmpeg -progress pipe:1 *)

FrameKey == <<"f", "r", "a", "m", "e", "=">>
OutTimeKey == <<"o", "u", "t", "_", "t", "i", "m", "e", "_", "m", "s", "=">>
ProgressKey == <<"p", "r", "o", "g", "r", "e", "s", "s", "=">>

NotANumber == <<"N", "/", "A">>

FrameLines ==
    {FrameKey \o v : v \in {<<"1", "0">>, <<"2", "5">>, <<"2", "0">>, NotANumber}}

OutTimeLines ==
    {OutTimeKey \o v : v \in {<<"1", "0", "0", "0", "0", "0", "0">>,
                               <<"2", "0", "0", "0", "0", "0", "0">>,
                               <<"1", "5", "0", "0", "0", "0", "0">>,
                               NotANumber}}

OtherLines == {ProgressKey \o <<"e", "n", "d">>}

Lines == FrameLines \cup OutTimeLines \cup OtherLines

\* the cursor is forgotten: the cumulative count is taken for the increment
FrameIncCumulative(cur, last) == cur

\* inc = cur - last_frames_counted
FrameInc(cur, last) == cur - last

\* the decimation factor is forgotten
EstNowUndecimated(ms, last, fps, n) == Trunc((ms - last) * fps, 1000000)

\* est_now = int((seconds - last_out_time) * (fps / max(1, every_n))),
\* seconds = ms / 1_000_000.0 and last_out_time held in microseconds
EstNow(ms, last, fps, n) == Trunc((ms - last) * fps, Max(1, n) * 1000000)

\* if inc > 0 / if est_now > 0
Advances(inc) == inc > 0

\* One turn of the for loop, lines 180-206: the bar, the calls it receives and
\* the two cursors after `line` has been handled.
AfterLine(line, est, fps, n, b, log, lastf, lastt) ==
    LET same == [bar |-> b, log |-> log, lastf |-> lastf, lastt |-> lastt]
    IN IF StartsWith(line, FrameKey)
       THEN IF IsNumeric(AfterEq(line)) /\ est = 0
            THEN LET cur == NumVal(AfterEq(line))
                     inc == FrameInc(cur, lastf)
                 IN IF Advances(inc)
                    THEN [bar |-> BarUpdate(b, inc), log |-> Append(log, Update(inc)),
                          lastf |-> cur, lastt |-> lastt]
                    ELSE same
            ELSE same
       ELSE IF StartsWith(line, OutTimeKey) /\ est > 0
       THEN IF IsNumeric(AfterEq(line))
            THEN LET ms == NumVal(AfterEq(line))
                     est_now == EstNow(ms, lastt, fps, n)
                 IN IF Advances(est_now)
                    THEN [bar |-> BarUpdate(b, est_now),
                          log |-> Append(log, Update(est_now)),
                          lastf |-> lastf, lastt |-> ms]
                    ELSE same
            ELSE same
       ELSE same

\* the bar is completed whenever the estimate is known
NeedsReconcileAlways(est, n) == est > 0

\* if est_frames > 0 and pbar.n < est_frames
NeedsReconcile(est, n) == est > 0 /\ n < est

\* a child killed by a signal (negative status) is taken for a success
ExitFailsPositive(rc) == rc > 0

\* if proc.returncode != 0: raise CalledProcessError
ExitFails(rc) == rc # 0

\* main's except clauses around ffmpeg_extract_frames, and __main__'s: the
\* script's exit status for each way the call ends (1: uncaught, traceback)
MainExit(o) ==
    CASE o = "ok" -> 0
      [] o = "CalledProcessError" -> 4
      [] o = "KeyboardInterrupt" -> 0
      [] OTHER -> 1

---------------------------------------------------------------------------
(* ffmpeg_extract_frames, called from main *)

MaxLines == 3
PipeCap == 2

ProbeOutcomes == {"ok", "CalledProcessError", "FileNotFoundError", "JSONDecodeError"}
ReadExceptions == {"KeyboardInterrupt", "UnicodeDecodeError"}
ExitStatuses == {0, 1, -2}

NoTimeCode == ts = <<>> /\ ts_result = Returned(0)

Idle ==
    /\ est_frames = 0
    /\ pbar = NoBar /\ calls = <<>>
    /\ proc = "none" /\ returncode = 0 /\ stdout = <<>> /\ emitted = 0
    /\ last_frames_counted = 0 /\ last_out_time = 0
    /\ exc = "none" /\ outcome = "none" /\ exit_status = 0

NoInputs ==
    /\ dur = 0 /\ fps_num = 0 /\ fps_den = 0 /\ probe = "ok"
    /\ every_n = 1 /\ start_ts = <<>> /\ end_ts = <<>>

Init ==
    /\ pc = "start"
    /\ Idle
    /\ NoTimeCode
    /\ probe \in ProbeOutcomes
    /\ dur \in {0, 2}
    /\ fps_num = 10 /\ fps_den = 1
    /\ every_n \in {1, 2}
    /\ start_ts = <<>>
    /\ end_ts \in {<<>>, <<"1">>, <<"x">>}

\* line 140: probe_video_info raises, and the exception leaves
\* ffmpeg_extract_frames before anything is launched
ProbeFails ==
    /\ pc = "start"
    /\ probe # "ok"
    /\ pc' = "done"
    /\ outcome' = probe
    /\ exit_status' = MainExit(probe)
    /\ UNCHANGED <<tsVars, inVars, est_frames, barVars, procVars, curVars, exc>>

\* lines 141-143: to_sec raises on a time code
BadTimeCode ==
    /\ pc = "start"
    /\ probe = "ok"
    /\ ~Estimate(dur, ProbeFps(fps_num, fps_den), every_n, start_ts, end_ts).ok
    /\ pc' = "done"
    /\ outcome' = "ValueError"
    /\ exit_status' = MainExit("ValueError")
    /\ UNCHANGED <<tsVars, inVars, est_frames, barVars, procVars, curVars, exc>>

\* lines 140-176: estimate, bar, Popen, cursors
Launch ==
    /\ pc = "start"
    /\ probe = "ok"
    /\ LET e == Estimate(dur, ProbeFps(fps_num, fps_den), every_n, start_ts, end_ts)
       IN /\ e.ok
          /\ est_frames' = e.val
          /\ pbar' = NewBar(e.val)
    /\ calls' = <<>>
    /\ proc' = "running"
    /\ last_frames_counted' = 0
    /\ last_out_time' = 0
    /\ pc' = "reading"
    /\ UNCHANGED <<tsVars, inVars, returncode, stdout, emitted, endVars>>

\* the child writes one progress line to its stdout pipe
ChildEmit ==
    /\ proc = "running"
    /\ emitted < MaxLines
    /\ Len(stdout) < PipeCap
    /\ \E line \in Lines : stdout' = Append(stdout, line)
    /\ emitted' = emitted + 1
    /\ UNCHANGED <<pc, tsVars, inVars, est_frames, barVars, proc, returncode,
                   curVars, endVars>>

\* the child exits (or is killed by a signal), which closes its end of the pipe
ChildExit ==
    /\ proc = "running"
    /\ proc' = "exited"
    /\ \E rc \in ExitStatuses : returncode' = rc
    /\ UNCHANGED <<pc, tsVars, inVars, est_frames, barVars, stdout, emitted,
                   curVars, endVars>>

\* lines 179-206: one line is read and handled
ReadLine ==
    /\ pc = "reading"
    /\ stdout # <<>>
    /\ LET r == AfterLine(Head(stdout), est_frames, ProbeFps(fps_num, fps_den),
                          every_n, pbar, calls, last_frames_counted, last_out_time)
       IN /\ pbar' = r.bar
          /\ calls' = r.log
          /\ last_frames_counted' = r.lastf
          /\ last_out_time' = r.lastt
    /\ stdout' = Tail(stdout)
    /\ UNCHANGED <<pc, tsVars, inVars, est_frames, proc, returncode, emitted, endVars>>

\* line 179: end of file on the pipe ends the loop
StreamEnd ==
    /\ pc = "reading"
    /\ stdout = <<>>
    /\ proc = "exited"
    /\ pc' = "waiting"
    /\ UNCHANGED <<tsVars, inVars, est_frames, barVars, procVars, curVars, endVars>>

\* line 179: the blocking read raises (Ctrl-C, or undecodable bytes)
ReadRaises ==
    /\ pc = "reading"
    /\ \E e \in ReadExceptions : exc' = e
    /\ pc' = "waiting"
    /\ UNCHANGED <<tsVars, inVars, est_frames, barVars, procVars, curVars,
                   outcome, exit_status>>

\* lines 207-215: proc.wait() returns, the bar is completed and closed, and
\* the call ends: the exception in flight, CalledProcessError, or a return
WaitReturns ==
    /\ pc = "waiting"
    /\ proc = "exited"
    /\ proc' = "reaped"
    /\ IF NeedsReconcile(est_frames, pbar.n)
       THEN /\ pbar' = BarClose(BarUpdate(pbar, est_frames - pbar.n))
            /\ calls' = calls \o <<Update(est_frames - pbar.n), Close>>
       ELSE /\ pbar' = BarClose(pbar)
            /\ calls' = Append(calls, Close)
    /\ outcome' = IF exc # "none" THEN exc
                  ELSE IF ExitFails(returncode) THEN "CalledProcessError"
                  ELSE "ok"
    /\ exit_status' = MainExit(outcome')
    /\ pc' = "done"
    /\ UNCHANGED <<tsVars, inVars, est_frames, returncode, stdout, emitted,
                   curVars, exc>>

\* line 208: Ctrl-C while proc.wait() blocks on a child that is still running;
\* the rest of the finally block is skipped
WaitInterrupted ==
    /\ pc = "waiting"
    /\ proc = "running"
    /\ exc' = "KeyboardInterrupt"
    /\ outcome' = "KeyboardInterrupt"
    /\ exit_status' = MainExit("KeyboardInterrupt")
    /\ pc' = "done"
    /\ UNCHANGED <<tsVars, inVars, est_frames, barVars, procVars, curVars>>

Next ==
    \/ ProbeFails
    \/ BadTimeCode
    \/ Launch
    \/ ChildEmit
    \/ ChildExit
    \/ ReadLine
    \/ StreamEnd
    \/ ReadRaises
    \/ WaitReturns
    \/ WaitInterrupted

Spec == Init /\ [][Next]_vars

---------------------------------------------------------------------------
(* to_sec on its own *)

InitToSec ==
    /\ pc = "to_sec"
    /\ Idle
    /\ NoInputs
    /\ \E k \in 0..MaxFields : \E f \in [1..k -> FieldStrings] : ts = Join(f)
    /\ ts_result = Returned(0)

CallToSec ==
    /\ pc = "to_sec"
    /\ ts_result' = ToSec(ts)
    /\ pc' = "parsed"
    /\ UNCHANGED <<ts, inVars, est_frames, barVars, procVars, curVars, endVars>>

NextToSec == CallToSec

SpecToSec == InitToSec /\ [][NextToSec]_vars

---------------------------------------------------------------------------
(* The estimate on its own: lines 140-148 *)

InitEstimate ==
    /\ pc = "estimate"
    /\ Idle
    /\ NoTimeCode
    /\ probe = "ok"
    /\ dur \in {0, 10, 120}
    /\ \E r \in {<<30, 1>>, <<25, 1>>, <<24, 1>>, <<0, 1>>, <<30, 0>>} :
          fps_num = r[1] /\ fps_den = r[2]
    /\ every_n \in {1, 3, 4}
    /\ start_ts \in {<<>>, <<"0">>, <<"1", "0">>, <<"0", ":", "3", "0">>,
                      <<"1", "3", "0">>}
    /\ end_ts \in {<<>>, <<"0">>, <<"5">>, <<"2", "0">>, <<"0", "1", ":", "0", "0">>}

DoEstimate ==
    /\ pc = "estimate"
    /\ LET e == Estimate(dur, ProbeFps(fps_num, fps_den), every_n, start_ts, end_ts)
       IN /\ e.ok
          /\ est_frames' = e.val
    /\ pc' = "estimated"
    /\ UNCHANGED <<tsVars, inVars, barVars, procVars, curVars, endVars>>

NextEstimate == DoEstimate

SpecEstimate == InitEstimate /\ [][NextEstimate]_vars

---------------------------------------------------------------------------
(* download_youtube.hook, called by yt-dlp once per progress event *)

MaxCalls == 4

\* the fields of d that hook reads; 0 stands for an absent or None size
Events ==
    [status : {"downloading", "finished", "error"},
     total_bytes : {0, 100, 200},
     total_bytes_estimate : {0, 150},
     downloaded_bytes : {0, 50, 100, 200}]

\* lines 64-82.  `if pbar:` is tqdm's __bool__: total > 0 when the total is
\* known, and a TypeError for a bar made with total=None and no iterable.
AfterHook(d, b, log) ==
    IF d.status = "downloading"
    THEN LET total == IF d.total_bytes # 0 THEN d.total_bytes
                      ELSE d.total_bytes_estimate
             b1 == IF ~b.made THEN NewBar(total) ELSE b
             retotal == total # 0 /\ b1.total # total
             b2 == IF retotal THEN BarSetTotal(b1, total) ELSE b1
             log2 == IF retotal THEN Append(log, SetTotal(total)) ELSE log
             inc == d.downloaded_bytes - b2.n
         IN IF inc > 0
            THEN [bar |-> BarUpdate(b2, inc), log |-> Append(log2, Update(inc)),
                  raised |-> FALSE]
            ELSE [bar |-> b2, log |-> log2, raised |-> FALSE]
    ELSE IF d.status = "finished" /\ b.made
    THEN IF b.total # 0
         THEN [bar |-> BarClose(b), log |-> Append(log, Close), raised |-> FALSE]
         ELSE [bar |-> b, log |-> log, raised |-> TRUE]
    ELSE [bar |-> b, log |-> log, raised |-> FALSE]

InitHook ==
    /\ pc = "hook"
    /\ Idle
    /\ NoTimeCode
    /\ NoInputs

Hook ==
    /\ pc = "hook"
    /\ Len(calls) + 2 <= MaxCalls
    /\ \E d \in Events :
          LET r == AfterHook(d, pbar, calls)
          IN /\ pbar' = r.bar
             /\ calls' = r.log
             /\ pc' = IF r.raised THEN "hook_raised" ELSE "hook"
    /\ UNCHANGED <<tsVars, inVars, est_frames, procVars, curVars, endVars>>

NextHook == Hook

SpecHook == InitHook /\ [][NextHook]_vars

---------------------------------------------------------------------------
(* Properties *)

IsUpdate(c) == c.op = "update"

RECURSIVE SumUpdates(_)
SumUpdates(log) ==
    IF log = <<>> THEN 0
    ELSE (IF IsUpdate(Head(log)) THEN Head(log).arg ELSE 0) + SumUpdates(Tail(log))

\* a step of the read loop that handles the line at the head of the pipe
LineHandled == pc = "reading" /\ stdout # <<>> /\ stdout' = Tail(stdout)

Floor(num, den) == num \div den

\* C1: with the estimate unknown, a frame=<v> line advances the bar by
\* v - last_frames_counted and moves the cursor to v when v is a number above
\* the cursor, and otherwise changes neither; so every advance is positive and
\* the bar's count is the cursor, the largest frame value read so far.
C1_FrameLines ==
    /\ [](pc \in {"reading", "waiting"} /\ est_frames = 0
            => /\ pbar.n = last_frames_counted
               /\ pbar.n = SumUpdates(calls)
               /\ \A i \in 1..Len(calls) : IsUpdate(calls[i]) /\ calls[i].arg > 0)
    /\ [][LineHandled /\ est_frames = 0 /\ StartsWith(Head(stdout), FrameKey)
            => LET v == AfterEq(Head(stdout))
               IN IF IsNumeric(v) /\ NumVal(v) > last_frames_counted
                  THEN /\ calls' = Append(calls, Update(NumVal(v) - last_frames_counted))
                       /\ pbar'.n = pbar.n + (NumVal(v) - last_frames_counted)
                       /\ last_frames_counted' = NumVal(v)
                  ELSE /\ calls' = calls
                       /\ pbar' = pbar
                       /\ last_frames_counted' = last_frames_counted]_vars

\* frame=10, frame=25 and a third line have been read: advances 10 then 15
C1_Witness ==
    /\ pc = "reading" /\ est_frames = 0
    /\ emitted = 3 /\ stdout = <<>>
    /\ calls = <<Update(10), Update(15)>>
    /\ pbar.n = 25 /\ last_frames_counted = 25

\* C2: with the estimate known, an out_time_ms=<v> line advances the bar by
\* floor((v / 1e6 - last_out_time) * fps / N) and moves the cursor to v / 1e6
\* when that is positive, and otherwise changes neither.
C2_OutTimeLines ==
    [][LineHandled /\ est_frames > 0 /\ StartsWith(Head(stdout), OutTimeKey)
          /\ IsNumeric(AfterEq(Head(stdout)))
        => LET v == NumVal(AfterEq(Head(stdout)))
               inc == Floor((v - last_out_time) * ProbeFps(fps_num, fps_den),
                            every_n * 1000000)
           IN IF inc > 0
              THEN /\ calls' = Append(calls, Update(inc))
                   /\ pbar'.n = pbar.n + inc
                   /\ last_out_time' = v
              ELSE /\ calls' = calls
                   /\ pbar' = pbar
                   /\ last_out_time' = last_out_time]_vars

\* 10 fps, N = 2, out_time_ms 1500000 then 2000000: floor(7.5) = 7, then
\* floor(2.5) = 2
C2_Witness ==
    /\ pc = "reading" /\ est_frames > 0
    /\ ProbeFps(fps_num, fps_den) = 10 /\ every_n = 2
    /\ calls = <<Update(7), Update(2)>>
    /\ last_out_time = 2000000

\* C3: when proc.wait() has returned, a bar that is short of a known estimate
\* receives one advance of (est_frames - count) and is then closed at
\* est_frames; otherwise it is closed at the count it has, with no advance;
\* the close is the last thing the bar receives, and the only close.
C3_Reconcile ==
    /\ [](pc = "done" /\ proc = "reaped"
            => /\ pbar.closed
               /\ calls # <<>> /\ calls[Len(calls)] = Close
               /\ \A i \in 1..(Len(calls) - 1) : IsUpdate(calls[i])
               /\ pbar.n = SumUpdates(calls)
               /\ est_frames > 0 => pbar.n >= est_frames
               /\ est_frames = 0 => pbar.n = last_frames_counted)
    /\ [][pc = "waiting" /\ proc' = "reaped"
            => IF est_frames > 0 /\ pbar.n < est_frames
               THEN /\ calls' = calls \o <<Update(est_frames - pbar.n), Close>>
                    /\ pbar'.n = est_frames
               ELSE /\ calls' = Append(calls, Close)
                    /\ pbar'.n = pbar.n]_vars

\* the stream ended after one advance short of the estimate; the bar got the
\* difference and then the close
C3_Witness ==
    /\ pc = "done" /\ exc = "none" /\ proc = "reaped"
    /\ est_frames = 20
    /\ calls = <<Update(10), Update(10), Close>>
    /\ last_out_time = 1000000
    /\ pbar.n = est_frames /\ pbar.closed

\* C4: the estimate is floor(effective_duration * fps / N) when fps > 0 and
\* effective_duration > 0, and 0 otherwise, where effective_duration is
\* max(0, end - start) with an explicit end, max(0, duration - start) with a
\* known duration, and 0 otherwise.
C4_Budget ==
    pc = "estimated"
    => LET start == ToSec(start_ts).val
           end == ToSec(end_ts).val
           fps == ProbeFps(fps_num, fps_den)
           d == IF end_ts # <<>> THEN end - start
                ELSE IF dur > 0 THEN dur - start
                ELSE 0
           eff == IF d > 0 THEN d ELSE 0
       IN /\ fps > 0 /\ eff > 0 => est_frames = Floor(eff * fps, every_n)
          /\ ~(fps > 0 /\ eff > 0) => est_frames = 0
          /\ dur = 120 /\ fps = 30 /\ start_ts = <<>> /\ end_ts = <<>>
                => est_frames = IF every_n = 1 THEN 3600
                                ELSE IF every_n = 3 THEN 1200 ELSE 900
          /\ fps = 25 /\ every_n = 1 /\ start = 10 /\ end = 20 /\ end_ts # <<>>
                => est_frames = 250

\* 120 s at 30 fps, one frame in 3, from 0:30 to the end: 90 * 30 / 3
C4_Witness ==
    /\ pc = "estimated"
    /\ dur = 120 /\ ProbeFps(fps_num, fps_den) = 30 /\ every_n = 3
    /\ start_ts = <<"0", ":", "3", "0">> /\ end_ts = <<>>
    /\ est_frames = 900

\* C5: to_sec raises on every time code that has more than 3 fields or a
\* field that is not a number.
C5_RejectsMalformed ==
    pc = "parsed" /\ ts # <<>>
    => LET fields == Split(ts, ":")
       IN Len(fields) > 3 \/ (\E i \in 1..Len(fields) : ~IsNumeric(fields[i]))
            => ~ts_result.ok

\* C6: when probe_video_info fails, ffmpeg is still launched, with the
\* estimate 0 and an indeterminate bar.
C6_ProbeFailureLaunches ==
    pc = "done" /\ probe # "ok"
    => proc # "none" /\ pbar.made /\ pbar.total = 0 /\ est_frames = 0

\* C7: once the stream has ended and proc.wait() has returned, the call raises
\* CalledProcessError (and the script exits with 4) exactly when the exit
\* status is not zero, and returns otherwise, whatever the bar counted; by
\* then the bar is closed.
C7_ExitStatusDecides ==
    pc = "done" /\ exc = "none" /\ proc = "reaped"
    => /\ outcome = "CalledProcessError" <=> returncode # 0
       /\ outcome = "ok" <=> returncode = 0
       /\ exit_status = 4 <=> returncode # 0
       /\ exit_status = 0 <=> returncode = 0
       /\ pbar.closed /\ calls[Len(calls)] = Close

\* exit status 0 with more counted than estimated: the call returns
C7_Witness ==
    /\ pc = "done" /\ exc = "none" /\ proc = "reaped"
    /\ returncode = 0 /\ outcome = "ok" /\ exit_status = 0
    /\ est_frames > 0 /\ pbar.n > est_frames

\* C8: whenever control has left ffmpeg_extract_frames after the child was
\* launched, the child has been reaped and the bar closed.
C8_NoOrphan ==
    pc = "done" /\ proc # "none" => proc = "reaped" /\ pbar.closed

\* C9: with a known estimate the bar's count never exceeds it.
C9_NeverAboveBudget ==
    pbar.made /\ est_frames > 0 => pbar.n <= est_frames

\* C10: a bar receives no advance and no change of total after its close.
C10_NothingAfterClose ==
    \A i \in 1..Len(calls) : \A j \in (i + 1)..Len(calls) :
        calls[i] = Close => calls[j].op \notin {"update", "total"}

====
